---- MODULE Spec2Model ----
(***************************************************************************)
(* Model of the Data-Intelligence-Platform deployment slice:               *)
(*   - frontend/src/config/api.ts : API_BASE_URL, getApiUrl, API_ENDPOINTS *)
(*   - build-and-push.sh          : build / tag / push of three images     *)
(*   - scripts/generate-keys.sh   : RSA key pair generation                *)
(* Strings are sequences of one-character strings, so that startsWith,     *)
(* concatenation and whitespace stripping are computed, not assumed.       *)
(***************************************************************************)
EXTENDS Integers, Sequences, FiniteSets, TLC

VARIABLES
    env,            \* import.meta.env.VITE_API_URL: [present, value]
    pc,             \* module evaluation: "unloaded" | "loaded" | "failed"
    cfgRead,        \* the configuration value line 12 read (history)
    API_BASE_URL,   \* api.ts:12
    API_ENDPOINTS,  \* api.ts:26-32
    ret,            \* outcome of the last operation on the module
    obs,            \* one remembered earlier observation (history)
    \* build-and-push.sh
    bpc,            \* position in the script: [op, img]
    dockerRunning,  \* whether "docker info" succeeds
    DOCKER_REPO_URL, \* shell variable: [set, value]
    ENV,            \* shell variable: [set, value]
    TAG,            \* shell variable: [set, value]
    blog,           \* docker build/tag/push commands run so far, with outcome
    bexit,          \* exit status of the script, -1 while it runs
    \* scripts/generate-keys.sh
    kpc,            \* position in the script
    stdin,          \* what the operator types: [text, newline]
    OVERWRITE,      \* shell variable set by read
    keysDir,        \* whether $KEYS_DIR exists
    priv,           \* keys/private_key.pem: [exists, key, mode]
    pub,            \* keys/public_key.pem: [exists, key]
    priv0,          \* private_key.pem when the script started (history)
    pub0,           \* public_key.pem when the script started (history)
    kexit           \* exit status of the script, -1 while it runs

apiVars == <<env, pc, cfgRead, API_BASE_URL, API_ENDPOINTS, ret>>
buildVars == <<bpc, dockerRunning, DOCKER_REPO_URL, ENV, TAG, blog, bexit>>
keyVars == <<kpc, stdin, OVERWRITE, keysDir, priv, pub, priv0, pub0, kexit>>
vars == <<apiVars, obs, buildVars, keyVars>>

(***************************************************************************)
(* Bounds and input sets                                                   *)
(***************************************************************************)
MaxBaseLen == 2
MaxEndpointLen == 2

Chars == {"/", "a"}

StrUpTo(n) == UNION {[1..k -> Chars] : k \in 0..n}

\* the endpoint literals the specification's scenarios pass to getApiUrl
CLEAN_REPORT_REL == <<"c", "l", "e", "a", "n", "-", "r", "e", "p", "o", "r", "t">>
LIST_TABLES_REL == <<"l", "i", "s", "t", "-", "t", "a", "b", "l", "e", "s">>

Absent == [present |-> FALSE, value |-> <<>>]
ConfigValues == {Absent} \cup {[present |-> TRUE, value |-> s] : s \in StrUpTo(MaxBaseLen)}
EndpointArgs == StrUpTo(MaxEndpointLen) \cup {CLEAN_REPORT_REL, LIST_TABLES_REL}

(***************************************************************************)
(* api.ts                                                                  *)
(***************************************************************************)
Keys == {"CLEAN_REPORT", "CLEAN_REPORT_RUNS", "LIST_TABLES", "RUN_ANALYSIS", "CHAT"}

PATHS ==
    [CLEAN_REPORT |-> <<"/", "c", "l", "e", "a", "n", "-", "r", "e", "p", "o", "r", "t">>,
     CLEAN_REPORT_RUNS |-> <<"/", "c", "l", "e", "a", "n", "-", "r", "e", "p", "o", "r", "t",
                             "/", "r", "u", "n", "s">>,
     LIST_TABLES |-> <<"/", "l", "i", "s", "t", "-", "t", "a", "b", "l", "e", "s">>,
     RUN_ANALYSIS |-> <<"/", "r", "u", "n", "-", "a", "n", "a", "l", "y", "s", "i", "s">>,
     CHAT |-> <<"/", "c", "h", "a", "t">>]

\* String.prototype.startsWith
startsWith(s, p) == Len(s) >= Len(p) /\ SubSeq(s, 1, Len(p)) = p

\* JavaScript truthiness of a string-or-undefined value
Truthy(v) == v.present /\ v.value # <<>>

\* mutant: falls back to the production prefix "/a" instead of ''
API_BASE_URL_init_fallback(v) == IF Truthy(v) THEN v.value ELSE <<"/", "a">>

\* line 12: import.meta.env.VITE_API_URL || ''
API_BASE_URL_init(v) == IF Truthy(v) THEN v.value ELSE <<>>

\* mutant: prepends '/' unconditionally
getApiUrl_alwaysSlash(endpoint) ==
    [threw |-> FALSE, value |-> API_BASE_URL \o <<"/">> \o endpoint]

\* mutant: rejects the empty endpoint
getApiUrl_throwsOnEmpty(endpoint) ==
    IF endpoint = <<>> THEN [threw |-> TRUE, value |-> <<>>]
    ELSE [threw |-> FALSE,
          value |-> API_BASE_URL \o (IF startsWith(endpoint, <<"/">>) THEN endpoint
                                     ELSE <<"/">> \o endpoint)]

\* mutant: reads the configuration on every call instead of API_BASE_URL
getApiUrl_liveEnv(endpoint) ==
    [threw |-> FALSE,
     value |-> API_BASE_URL_init(env) \o (IF startsWith(endpoint, <<"/">>) THEN endpoint
                                          ELSE <<"/">> \o endpoint)]

\* mutant: merges the slash at the join of base and path
getApiUrl_mergeSlash(endpoint) ==
    LET normalizedEndpoint == IF startsWith(endpoint, <<"/">>) THEN endpoint
                              ELSE <<"/">> \o endpoint
        base == IF API_BASE_URL # <<>> /\ API_BASE_URL[Len(API_BASE_URL)] = "/"
                THEN SubSeq(API_BASE_URL, 1, Len(API_BASE_URL) - 1)
                ELSE API_BASE_URL
    IN  [threw |-> FALSE, value |-> base \o normalizedEndpoint]

\* lines 19-23; the call returns (threw = FALSE) for every string
getApiUrl(endpoint) ==
    LET normalizedEndpoint == IF startsWith(endpoint, <<"/">>) THEN endpoint
                              ELSE <<"/">> \o endpoint
    IN  [threw |-> FALSE, value |-> API_BASE_URL \o normalizedEndpoint]

\* mutant: CLEAN_REPORT_RUNS bound to the CLEAN_REPORT path
API_ENDPOINTS_init_wrongPath ==
    [k \in Keys |-> getApiUrl(IF k = "CLEAN_REPORT_RUNS" THEN PATHS.CLEAN_REPORT
                              ELSE PATHS[k])]

\* lines 26-32: the five getApiUrl calls of the object literal
API_ENDPOINTS_init ==
    [CLEAN_REPORT |-> getApiUrl(PATHS.CLEAN_REPORT),
     CLEAN_REPORT_RUNS |-> getApiUrl(PATHS.CLEAN_REPORT_RUNS),
     LIST_TABLES |-> getApiUrl(PATHS.LIST_TABLES),
     RUN_ANALYSIS |-> getApiUrl(PATHS.RUN_ANALYSIS),
     CHAT |-> getApiUrl(PATHS.CHAT)]

\* the exports before the module has been evaluated
NoTable == [k \in Keys |-> <<>>]
NoRet == [op |-> "none", endpoint |-> <<>>, key |-> "", threw |-> FALSE, value |-> <<>>]
NoObs == [kind |-> "none", fresh |-> FALSE, cfg |-> Absent, endpoint |-> <<>>,
          base |-> <<>>, table |-> NoTable, value |-> <<>>]

\* values a consumer assigns to a table entry
WrittenValues == {<<"a">>}

\* Evaluation of the module body, lines 12-32, in one synchronous step.
LoadModule ==
    /\ pc = "unloaded"
    /\ UNCHANGED env
    /\ cfgRead' = env
    /\ API_BASE_URL' = API_BASE_URL_init(env)
    /\ LET calls == API_ENDPOINTS_init'
           failed == \E k \in Keys : calls[k].threw
       IN  /\ pc' = IF failed THEN "failed" ELSE "loaded"
           /\ API_ENDPOINTS' = IF failed THEN NoTable
                               ELSE [k \in Keys |-> calls[k].value]
           /\ ret' = [NoRet EXCEPT !.op = "load", !.threw = failed]

\* A consumer calls getApiUrl(endpoint).
CallGetApiUrl(endpoint) ==
    /\ pc = "loaded"
    /\ LET r == getApiUrl(endpoint)
       IN  ret' = [NoRet EXCEPT !.op = "getApiUrl", !.endpoint = endpoint,
                                !.threw = r.threw, !.value = r.value]
    /\ UNCHANGED <<env, pc, cfgRead, API_BASE_URL, API_ENDPOINTS>>

\* A consumer reads API_ENDPOINTS[key].
ReadEndpoint(key) ==
    /\ pc = "loaded"
    /\ ret' = [NoRet EXCEPT !.op = "read", !.key = key, !.value = API_ENDPOINTS[key]]
    /\ UNCHANGED <<env, pc, cfgRead, API_BASE_URL, API_ENDPOINTS>>

\* A consumer assigns API_ENDPOINTS[key] = v at run time. The object literal of
\* lines 26-32 is not frozen ("as const" is erased by the compiler), so the
\* assignment succeeds.
WriteEndpoint(key, v) ==
    /\ pc = "loaded"
    /\ API_ENDPOINTS[key] # v
    /\ API_ENDPOINTS' = [API_ENDPOINTS EXCEPT ![key] = v]
    /\ ret' = [NoRet EXCEPT !.op = "write", !.key = key, !.value = v]
    /\ UNCHANGED <<env, pc, cfgRead, API_BASE_URL>>

\* A consumer assigns to the imported binding API_BASE_URL: an "export const"
\* binding is read-only, the assignment throws and changes nothing.
WriteBase(v) ==
    /\ pc = "loaded"
    /\ ret' = [NoRet EXCEPT !.op = "writeBase", !.threw = TRUE, !.value = v]
    /\ UNCHANGED <<env, pc, cfgRead, API_BASE_URL, API_ENDPOINTS>>

\* The hosting environment changes the configuration value.
SetEnv(v) ==
    /\ v # env
    /\ env' = v
    /\ UNCHANGED <<pc, cfgRead, API_BASE_URL, API_ENDPOINTS, ret>>

\* The process ends and a new one starts: nothing of the module survives.
Restart ==
    /\ pc # "unloaded"
    /\ pc' = "unloaded"
    /\ cfgRead' = Absent
    /\ API_BASE_URL' = <<>>
    /\ API_ENDPOINTS' = NoTable
    /\ ret' = NoRet
    /\ UNCHANGED env

(***************************************************************************)
(* build-and-push.sh                                                       *)
(***************************************************************************)
Unset == [set |-> FALSE, value |-> ""]

\* the three image blocks in script order (lines 78, 109, 140)
Images == <<"clarity-backend", "clarity-frontend", "clarity-proxy">>

At(op, img) == [op |-> op, img |-> img]

\* test -z "$V": unset and empty are alike
IsEmpty(v) == ~v.set \/ v.value = ""

\* ${V:-default}
DefaultOf(v, d) == IF IsEmpty(v) THEN [set |-> TRUE, value |-> d] ELSE v

\* where the script goes after the push of an image
AfterPush(img) ==
    IF img = Images[1] THEN At("build", Images[2])
    ELSE IF img = Images[2] THEN At("build", Images[3])
    ELSE At("summary", "")

\* mutant: without "set -e" a failing command does not stop the script
Errexit_off(ok, next) == next

\* line 26, set -e: a failing simple command ends the script
Errexit(ok, next) == IF ok THEN next ELSE At("exited", "")

\* the exit status a failing docker command leaves
DockerFailures == {1, 125}

\* lines 44-48
CheckDocker ==
    /\ bpc = At("check_docker", "")
    /\ IF dockerRunning
       THEN bpc' = At("check_repo", "") /\ bexit' = bexit
       ELSE bpc' = At("exited", "") /\ bexit' = 1
    /\ UNCHANGED <<dockerRunning, DOCKER_REPO_URL, ENV, TAG, blog>>

\* lines 51-57
CheckRepoUrl ==
    /\ bpc = At("check_repo", "")
    /\ IF IsEmpty(DOCKER_REPO_URL)
       THEN bpc' = At("exited", "") /\ bexit' = 1
       ELSE bpc' = At("defaults", "") /\ bexit' = bexit
    /\ UNCHANGED <<dockerRunning, DOCKER_REPO_URL, ENV, TAG, blog>>

\* lines 60-68
SetDefaults ==
    /\ bpc = At("defaults", "")
    /\ ENV' = DefaultOf(ENV, "dev")
    /\ TAG' = DefaultOf(TAG, "latest")
    /\ bpc' = At("build", Images[1])
    /\ UNCHANGED <<dockerRunning, DOCKER_REPO_URL, blog, bexit>>

\* one docker command of an image block, succeeding or failing
DockerStep(op, img, ok, status, next) ==
    /\ bpc = At(op, img)
    /\ blog' = Append(blog, [op |-> op, img |-> img, tag |-> TAG.value,
                             repo |-> DOCKER_REPO_URL.value, ok |-> ok])
    /\ bpc' = Errexit(ok, next)
    /\ bexit' = IF bpc' = At("exited", "") THEN status ELSE bexit
    /\ UNCHANGED <<dockerRunning, DOCKER_REPO_URL, ENV, TAG>>

\* lines 81-88, 112-119, 143-152
DockerBuild(img, ok, status) == DockerStep("build", img, ok, status, At("tag", img))

\* lines 92-93, 123-124, 156-157
DockerTag(img, ok, status) == DockerStep("tag", img, ok, status, At("push", img))

\* lines 97-99, 128-130, 161-163
DockerPush(img, ok, status) == DockerStep("push", img, ok, status, AfterPush(img))

\* lines 169-188
Summary ==
    /\ bpc = At("summary", "")
    /\ bpc' = At("done", "")
    /\ bexit' = 0
    /\ UNCHANGED <<dockerRunning, DOCKER_REPO_URL, ENV, TAG, blog>>
(***************************************************************************)
(* scripts/generate-keys.sh                                                *)
(***************************************************************************)
MaxAnswerLen == 2

AnswerChars == {"y", "Y", "n", " ", "\\"}

Answers == UNION {[1..k -> AnswerChars] : k \in 0..MaxAnswerLen}

NoFile == [exists |-> FALSE, key |-> "none", mode |-> 0]

\* key material: OldKey is on disk before the run, NewKeys are what genrsa draws
OldKey == "old"
NewKeys == {"new1", "new2"}

\* read without -r: a backslash quotes the character after it and is removed;
\* a backslash that ends the input is dropped
RECURSIVE Unescape(_)
Unescape(s) ==
    IF s = <<>> THEN <<>>
    ELSE IF Head(s) = "\\"
         THEN IF Len(s) = 1 THEN <<>>
              ELSE <<[c |-> s[2], quoted |-> TRUE]>> \o Unescape(SubSeq(s, 3, Len(s)))
         ELSE <<[c |-> Head(s), quoted |-> FALSE]>> \o Unescape(Tail(s))

\* whether the line ends in an unquoted backslash: read then continues with the
\* next line
RECURSIVE Continues(_)
Continues(s) ==
    IF s = <<>> THEN FALSE
    ELSE IF Head(s) = "\\" THEN Len(s) = 1 \/ Continues(SubSeq(s, 3, Len(s)))
    ELSE Continues(Tail(s))

IsBlank(x) == x.c = " " /\ ~x.quoted

RECURSIVE StripLeft(_)
StripLeft(s) == IF s # <<>> /\ IsBlank(Head(s)) THEN StripLeft(Tail(s)) ELSE s

RECURSIVE StripRight(_)
StripRight(s) ==
    IF s # <<>> /\ IsBlank(s[Len(s)]) THEN StripRight(SubSeq(s, 1, Len(s) - 1)) ELSE s

\* line 39, read with one name: the value it stores is the line with backslash
\* quoting removed and unquoted IFS whitespace stripped from both ends
ReadValue(text) ==
    LET w == StripRight(StripLeft(Unescape(text)))
    IN  [i \in 1..Len(w) |-> w[i].c]

\* line 39: read succeeds only on a complete line; the operator types one line,
\* so a line that continues, or one not ended by a newline, runs into the end
\* of the input
ReadSucceeds(in) == in.newline /\ ~Continues(in.text)

\* mutant: everything but "n" counts as consent
Declined_onlyN(answer) == answer = <<"n">>

\* line 40
Declined(answer) == answer # <<"y">> /\ answer # <<"Y">>

\* lines 36-44
CheckExisting ==
    /\ kpc = "check"
    /\ IF keysDir /\ priv.exists
       THEN /\ OVERWRITE' = ReadValue(stdin.text)
            /\ IF ~ReadSucceeds(stdin)
               THEN kpc' = "exited" /\ kexit' = 1
               ELSE IF Declined(OVERWRITE')
                    THEN kpc' = "exited" /\ kexit' = 0
                    ELSE kpc' = "mkdir" /\ kexit' = kexit
       ELSE kpc' = "mkdir" /\ UNCHANGED <<OVERWRITE, kexit>>
    /\ UNCHANGED <<stdin, keysDir, priv, pub, priv0, pub0>>

\* line 47
Mkdir ==
    /\ kpc = "mkdir"
    /\ keysDir' = TRUE
    /\ kpc' = "genrsa"
    /\ UNCHANGED <<stdin, OVERWRITE, priv, pub, priv0, pub0, kexit>>

\* line 53: a new key is written; an existing file keeps its mode, a new
\* file gets the mode openssl and the umask give it
GenRsa(k, m) ==
    /\ kpc = "genrsa"
    /\ priv' = [exists |-> TRUE, key |-> k, mode |-> IF priv.exists THEN priv.mode ELSE m]
    /\ kpc' = "rsa"
    /\ UNCHANGED <<stdin, OVERWRITE, keysDir, pub, priv0, pub0, kexit>>

\* line 53 failing: set -e ends the script; the output file is untouched or
\* left truncated
GenRsaFails(truncated) ==
    /\ kpc = "genrsa"
    /\ priv' = IF truncated
               THEN [exists |-> TRUE, key |-> "none", mode |-> IF priv.exists THEN priv.mode ELSE 644]
               ELSE priv
    /\ kpc' = "exited"
    /\ kexit' = 1
    /\ UNCHANGED <<stdin, OVERWRITE, keysDir, pub, priv0, pub0>>

\* line 56
RsaPubout ==
    /\ kpc = "rsa"
    /\ pub' = [exists |-> TRUE, key |-> priv.key, mode |-> IF pub.exists THEN pub.mode ELSE 644]
    /\ kpc' = "chmod"
    /\ UNCHANGED <<stdin, OVERWRITE, keysDir, priv, priv0, pub0, kexit>>

\* line 56 failing
RsaPuboutFails ==
    /\ kpc = "rsa"
    /\ kpc' = "exited"
    /\ kexit' = 1
    /\ UNCHANGED <<stdin, OVERWRITE, keysDir, priv, pub, priv0, pub0>>

\* line 59
Chmod ==
    /\ kpc = "chmod"
    /\ priv' = [priv EXCEPT !.mode = 600]
    /\ kpc' = "report"
    /\ UNCHANGED <<stdin, OVERWRITE, keysDir, pub, priv0, pub0, kexit>>

\* lines 61-87
Report ==
    /\ kpc = "report"
    /\ kpc' = "done"
    /\ kexit' = 0
    /\ UNCHANGED <<stdin, OVERWRITE, keysDir, priv, pub, priv0, pub0>>
(***************************************************************************)
(* Specifications                                                          *)
(***************************************************************************)
ApiIdle ==
    /\ pc = "unloaded"
    /\ cfgRead = Absent
    /\ API_BASE_URL = <<>>
    /\ API_ENDPOINTS = NoTable
    /\ ret = NoRet
    /\ obs = NoObs

BuildIdle ==
    /\ bpc = [op |-> "idle", img |-> ""]
    /\ dockerRunning = FALSE
    /\ DOCKER_REPO_URL = Unset
    /\ ENV = Unset
    /\ TAG = Unset
    /\ blog = <<>>
    /\ bexit = -1

KeysIdle ==
    /\ kpc = "idle"
    /\ stdin = [text |-> <<>>, newline |-> FALSE]
    /\ OVERWRITE = <<>>
    /\ keysDir = FALSE
    /\ priv = NoFile
    /\ pub = NoFile
    /\ priv0 = NoFile
    /\ pub0 = NoFile
    /\ kexit = -1

\* api.ts and its consumers
Init ==
    /\ env \in ConfigValues
    /\ ApiIdle
    /\ BuildIdle
    /\ KeysIdle

Next ==
    \/ LoadModule /\ UNCHANGED <<obs, buildVars, keyVars>>
    \/ \E e \in EndpointArgs : CallGetApiUrl(e) /\ UNCHANGED <<obs, buildVars, keyVars>>
    \/ \E k \in Keys : ReadEndpoint(k) /\ UNCHANGED <<obs, buildVars, keyVars>>
    \/ \E k \in Keys, v \in WrittenValues :
            WriteEndpoint(k, v) /\ UNCHANGED <<obs, buildVars, keyVars>>
    \/ \E v \in WrittenValues : WriteBase(v) /\ UNCHANGED <<obs, buildVars, keyVars>>
    \/ \E v \in ConfigValues : SetEnv(v) /\ UNCHANGED <<obs, buildVars, keyVars>>
    \/ Restart /\ UNCHANGED <<obs, buildVars, keyVars>>

Spec == Init /\ [][Next]_vars

\* api.ts with an observer that remembers one earlier getApiUrl call of the
\* running process, or the outcome of one earlier module evaluation
\* (obs.fresh: nothing has happened since it was recorded)
ObserveCall ==
    {IF obs.kind = "call" THEN [obs EXCEPT !.fresh = FALSE] ELSE obs,
     [NoObs EXCEPT !.kind = "call", !.fresh = TRUE,
                   !.endpoint = ret'.endpoint, !.value = ret'.value]}

ObserveRun ==
    {obs,
     [NoObs EXCEPT !.kind = "run", !.fresh = TRUE, !.cfg = cfgRead',
                   !.base = API_BASE_URL', !.table = API_ENDPOINTS']}

NextDet ==
    \/ LoadModule /\ obs' \in ObserveRun /\ UNCHANGED <<buildVars, keyVars>>
    \/ \E e \in EndpointArgs :
            CallGetApiUrl(e) /\ obs' \in ObserveCall /\ UNCHANGED <<buildVars, keyVars>>
    \/ \E k \in Keys : ReadEndpoint(k) /\ UNCHANGED <<obs, buildVars, keyVars>>
    \/ \E v \in ConfigValues : SetEnv(v) /\ UNCHANGED <<obs, buildVars, keyVars>>
    \/ /\ Restart
       /\ obs' = IF obs.kind = "run" THEN [obs EXCEPT !.fresh = FALSE] ELSE NoObs
       /\ UNCHANGED <<buildVars, keyVars>>

SpecDet == Init /\ [][NextDet]_vars

\* build-and-push.sh, over every environment it can be started in
InitBuild ==
    /\ env = Absent
    /\ ApiIdle
    /\ KeysIdle
    /\ bpc = At("check_docker", "")
    /\ dockerRunning \in BOOLEAN
    /\ DOCKER_REPO_URL \in {Unset, [set |-> TRUE, value |-> ""],
                            [set |-> TRUE, value |-> "registry/repo"]}
    /\ ENV \in {Unset, [set |-> TRUE, value |-> "prod"]}
    /\ TAG \in {Unset, [set |-> TRUE, value |-> ""], [set |-> TRUE, value |-> "v1"]}
    /\ blog = <<>>
    /\ bexit = -1

NextBuild ==
    \/ CheckDocker /\ UNCHANGED <<apiVars, obs, keyVars>>
    \/ CheckRepoUrl /\ UNCHANGED <<apiVars, obs, keyVars>>
    \/ SetDefaults /\ UNCHANGED <<apiVars, obs, keyVars>>
    \/ \E i \in 1..Len(Images), ok \in BOOLEAN, st \in DockerFailures :
            DockerBuild(Images[i], ok, st) /\ UNCHANGED <<apiVars, obs, keyVars>>
    \/ \E i \in 1..Len(Images), ok \in BOOLEAN, st \in DockerFailures :
            DockerTag(Images[i], ok, st) /\ UNCHANGED <<apiVars, obs, keyVars>>
    \/ \E i \in 1..Len(Images), ok \in BOOLEAN, st \in DockerFailures :
            DockerPush(Images[i], ok, st) /\ UNCHANGED <<apiVars, obs, keyVars>>
    \/ Summary /\ UNCHANGED <<apiVars, obs, keyVars>>

SpecBuild == InitBuild /\ [][NextBuild]_vars

\* generate-keys.sh, over every key directory and operator input
InitKeys ==
    /\ env = Absent
    /\ ApiIdle
    /\ BuildIdle
    /\ kpc = "check"
    /\ stdin \in [text : Answers, newline : BOOLEAN]
    /\ OVERWRITE = <<>>
    /\ keysDir \in BOOLEAN
    /\ priv \in {NoFile} \cup
                (IF keysDir THEN [exists : {TRUE}, key : {OldKey}, mode : {600, 644}] ELSE {})
    /\ pub \in {NoFile} \cup
               (IF keysDir THEN [exists : {TRUE}, key : {OldKey}, mode : {644}] ELSE {})
    /\ priv0 = priv
    /\ pub0 = pub
    /\ kexit = -1

NextKeys ==
    \/ CheckExisting /\ UNCHANGED <<apiVars, obs, buildVars>>
    \/ Mkdir /\ UNCHANGED <<apiVars, obs, buildVars>>
    \/ \E k \in NewKeys, m \in {600, 644} : GenRsa(k, m) /\ UNCHANGED <<apiVars, obs, buildVars>>
    \/ \E tr \in BOOLEAN : GenRsaFails(tr) /\ UNCHANGED <<apiVars, obs, buildVars>>
    \/ RsaPubout /\ UNCHANGED <<apiVars, obs, buildVars>>
    \/ RsaPuboutFails /\ UNCHANGED <<apiVars, obs, buildVars>>
    \/ Chmod /\ UNCHANGED <<apiVars, obs, buildVars>>
    \/ Report /\ UNCHANGED <<apiVars, obs, buildVars>>

SpecKeys == InitKeys /\ [][NextKeys]_vars

(***************************************************************************)
(* Claims                                                                  *)
(***************************************************************************)
Slash == "/"

EndsWithSlash(s) == s # <<>> /\ s[Len(s)] = Slash

\* C1: getApiUrl returns exactly base + e when e starts with '/', and exactly
\* base + '/' + e otherwise (the empty endpoint gives base + '/').
C1_GetApiUrlConcatenates ==
    ret.op = "getApiUrl" =>
        /\ ~ret.threw
        /\ ret.value = IF ret.endpoint # <<>> /\ ret.endpoint[1] = Slash
                       THEN API_BASE_URL \o ret.endpoint
                       ELSE API_BASE_URL \o <<Slash>> \o ret.endpoint

C1_Witness ==
    /\ ret.op = "getApiUrl"
    /\ API_BASE_URL = <<"a">>
    /\ ret.endpoint = LIST_TABLES_REL
    /\ ret.value = <<"a", "/", "l", "i", "s", "t", "-", "t", "a", "b", "l", "e", "s">>

\* C2: the base URL read at module initialization is the configuration value
\* verbatim when that is a non-empty string and '' when it is absent or empty;
\* with the configuration unset, getApiUrl('clean-report') is '/clean-report'.
C2_BaseUrlFromConfiguration ==
    pc = "loaded" =>
        /\ (cfgRead.present /\ Len(cfgRead.value) > 0) => API_BASE_URL = cfgRead.value
        /\ (~cfgRead.present \/ Len(cfgRead.value) = 0) => API_BASE_URL = <<>>
        /\ (~cfgRead.present /\ ret.op = "getApiUrl" /\ ret.endpoint = CLEAN_REPORT_REL) =>
               ret.value = <<"/", "c", "l", "e", "a", "n", "-", "r", "e", "p", "o", "r", "t">>

C2_Witness ==
    /\ pc = "loaded"
    /\ ~cfgRead.present
    /\ env = [present |-> TRUE, value |-> <<"a", "/">>]
    /\ ret.op = "getApiUrl"
    /\ ret.endpoint = CLEAN_REPORT_REL
    /\ ret.value = <<"/", "c", "l", "e", "a", "n", "-", "r", "e", "p", "o", "r", "t">>

\* the five paths as the claim lists them
C3_Table ==
    [CLEAN_REPORT |-> <<"/", "c", "l", "e", "a", "n", "-", "r", "e", "p", "o", "r", "t">>,
     CLEAN_REPORT_RUNS |-> <<"/", "c", "l", "e", "a", "n", "-", "r", "e", "p", "o", "r", "t",
                             "/", "r", "u", "n", "s">>,
     LIST_TABLES |-> <<"/", "l", "i", "s", "t", "-", "t", "a", "b", "l", "e", "s">>,
     RUN_ANALYSIS |-> <<"/", "r", "u", "n", "-", "a", "n", "a", "l", "y", "s", "i", "s">>,
     CHAT |-> <<"/", "c", "h", "a", "t">>]

\* C3: when module initialization has finished, API_ENDPOINTS has exactly the
\* five keys, each bound to API_BASE_URL + its fixed path; with base '' the
\* table is exactly the five paths.
C3_EndpointTable ==
    ret.op = "load" =>
        /\ pc = "loaded"
        /\ DOMAIN API_ENDPOINTS =
               {"CLEAN_REPORT", "CLEAN_REPORT_RUNS", "LIST_TABLES", "RUN_ANALYSIS", "CHAT"}
        /\ \A k \in DOMAIN API_ENDPOINTS : API_ENDPOINTS[k] = API_BASE_URL \o C3_Table[k]
        /\ API_BASE_URL = <<>> => API_ENDPOINTS = C3_Table

C3_Witness ==
    /\ ret.op = "load"
    /\ API_BASE_URL = <<"a", "a">>
    /\ API_ENDPOINTS.CLEAN_REPORT_RUNS =
           <<"a", "a", "/", "c", "l", "e", "a", "n", "-", "r", "e", "p", "o", "r", "t",
             "/", "r", "u", "n", "s">>

\* C4: the path appended to the base begins with exactly one '/', and the
\* resolved URL has no double slash from normalization or from the join of
\* base and path.
C4_SingleLeadingSlash ==
    ret.op = "getApiUrl" =>
        LET path == SubSeq(ret.value, Len(API_BASE_URL) + 1, Len(ret.value))
        IN  /\ path # <<>>
            /\ path[1] = Slash
            /\ Len(path) >= 2 => path[2] # Slash
            /\ ~EndsWithSlash(API_BASE_URL)

\* C5: once module initialization has finished, API_BASE_URL and every entry of
\* API_ENDPOINTS keep their values for the rest of the process lifetime, whatever
\* consumers do and however the configuration changes.
C5_ExportsImmutable ==
    [][(pc = "loaded" /\ pc' = "loaded") =>
           (API_BASE_URL' = API_BASE_URL /\ API_ENDPOINTS' = API_ENDPOINTS)]_vars

\* every character a configuration value, an endpoint or a path is made of
AllChars ==
    Chars \cup UNION {{s[i] : i \in 1..Len(s)} :
                         s \in {C3_Table[k] : k \in DOMAIN C3_Table}
                               \cup {CLEAN_REPORT_REL, LIST_TABLES_REL}}

\* C6: module initialization completes with a string base URL and a full table
\* for every configuration value, and getApiUrl returns a string without
\* raising an error for every endpoint string.
C6_OperationsTotal ==
    /\ pc # "failed"
    /\ pc = "unloaded" => ENABLED LoadModule
    /\ pc = "loaded" =>
          /\ API_BASE_URL \in Seq(Chars)
          /\ DOMAIN API_ENDPOINTS = Keys
          /\ \A e \in EndpointArgs : ENABLED CallGetApiUrl(e)
    /\ ret.op \in {"load", "getApiUrl"} => ~ret.threw
    /\ ret.op = "load" => \A k \in Keys : API_ENDPOINTS[k] \in Seq(AllChars)
    /\ ret.op = "getApiUrl" => ret.value \in Seq(AllChars)

C6_Witness ==
    /\ pc = "loaded"
    /\ ~cfgRead.present
    /\ ret.op = "getApiUrl"
    /\ ret.endpoint = <<>>
    /\ ~ret.threw
    /\ ret.value = <<"/">>

\* C7: two getApiUrl calls of one process with the same endpoint return the
\* same string whatever happens in between, and two module evaluations that
\* read the same configuration value produce the same base URL and table.
C7_Deterministic ==
    /\ (obs.kind = "call" /\ ~obs.fresh /\ ret.op = "getApiUrl"
            /\ ret.endpoint = obs.endpoint) => ret.value = obs.value
    /\ (obs.kind = "run" /\ ~obs.fresh /\ ret.op = "load" /\ cfgRead = obs.cfg) =>
            (API_BASE_URL = obs.base /\ API_ENDPOINTS = obs.table)

C7_Witness ==
    /\ obs.kind = "call"
    /\ ~obs.fresh
    /\ ret.op = "getApiUrl"
    /\ ret.endpoint = obs.endpoint
    /\ ret.endpoint = <<"a">>
    /\ cfgRead = [present |-> TRUE, value |-> <<"a">>]
    /\ env = Absent
    /\ ret.value = <<"a", "/", "a">>

\* C8: when the base URL ends with '/', every getApiUrl result and all five
\* API_ENDPOINTS entries keep the whole base and carry '//' at the join.
C8_DoubleSlashAtJoin ==
    EndsWithSlash(API_BASE_URL) =>
        LET n == Len(API_BASE_URL)
            Joined(url) == /\ Len(url) > n
                           /\ SubSeq(url, 1, n) = API_BASE_URL
                           /\ url[n] = Slash
                           /\ url[n + 1] = Slash
        IN  /\ ret.op = "getApiUrl" => Joined(ret.value)
            /\ ret.op = "load" => \A k \in Keys : Joined(API_ENDPOINTS[k])

C8_Witness ==
    /\ API_BASE_URL = <<"a", "/">>
    /\ ret.op = "getApiUrl"
    /\ ret.endpoint = <<"/", "a">>
    /\ ret.value = <<"a", "/", "/", "a">>

\* the docker commands of a complete run, in the order the claim gives
C9_Order ==
    <<<<"build", "clarity-backend">>, <<"tag", "clarity-backend">>, <<"push", "clarity-backend">>,
      <<"build", "clarity-frontend">>, <<"tag", "clarity-frontend">>, <<"push", "clarity-frontend">>,
      <<"build", "clarity-proxy">>, <<"tag", "clarity-proxy">>, <<"push", "clarity-proxy">>>>

\* C9: nothing is built when Docker is not running or DOCKER_REPO_URL is empty
\* (the script exits 1); otherwise the images are handled in the order backend,
\* frontend, proxy, each pushed only after its own build and tag succeeded, the
\* first failing step ends the script, and the summary is reached only when
\* all three images were pushed.
C9_BuildAndPushOrder ==
    /\ (~dockerRunning \/ ~DOCKER_REPO_URL.set \/ DOCKER_REPO_URL.value = "") =>
           /\ blog = <<>>
           /\ bpc.op \in {"check_docker", "check_repo", "exited"}
           /\ bpc.op = "exited" => bexit = 1
    /\ Len(blog) <= Len(C9_Order)
    /\ \A i \in 1..Len(blog) : <<blog[i].op, blog[i].img>> = C9_Order[i]
    /\ \A i \in 1..Len(blog) : i < Len(blog) => blog[i].ok
    /\ (blog # <<>> /\ ~blog[Len(blog)].ok) => (bpc.op = "exited" /\ bexit > 0)
    /\ bpc.op \in {"summary", "done"} =>
           /\ Len(blog) = Len(C9_Order)
           /\ \A i \in 1..Len(blog) : blog[i].ok
    /\ bpc.op = "done" => bexit = 0

C9_Witness ==
    /\ bpc.op = "done"
    /\ bexit = 0
    /\ Len(blog) = 9
    /\ blog[9] = [op |-> "push", img |-> "clarity-proxy", tag |-> "latest",
                  repo |-> "registry/repo", ok |-> TRUE]

C10_Overwritten == priv # priv0 \/ pub # pub0

C10_Ended == kpc \in {"exited", "done"}

\* whenever the script completes key generation, the public key was derived
\* from the newly written private key and the private key file has mode 600
C10_Completed ==
    kpc = "done" =>
        /\ kexit = 0
        /\ priv.exists /\ pub.exists
        /\ priv.key \in {"new1", "new2"}
        /\ pub.key = priv.key
        /\ priv.mode = 600

\* C10 as claimed, an answer being a complete line that read accepted: with
\* keys/private_key.pem present, the key files are overwritten only if the
\* answer is exactly 'y' or 'Y'; for any other answer the script exits 0 without
\* generating and leaves the files unchanged; a completed run leaves a public
\* key of the new private key, mode 600.
C10_ExactAnswer ==
    /\ (keysDir /\ priv0.exists /\ ReadSucceeds(stdin)) =>
           /\ C10_Overwritten => stdin.text \in {<<"y">>, <<"Y">>}
           /\ (C10_Ended /\ stdin.text \notin {<<"y">>, <<"Y">>}) =>
                  (kpc = "exited" /\ kexit = 0 /\ ~C10_Overwritten)
    /\ C10_Completed

\* the line is y or Y with nothing but blanks around it
C10_IsYes(text) ==
    \E i \in 1..Len(text) :
        /\ text[i] \in {"y", "Y"}
        /\ \A j \in 1..Len(text) : j # i => text[j] = " "

C10_Plain(text) == \A i \in 1..Len(text) : text[i] # "\\"

\* C10 as amended: what decides is the value read stores in OVERWRITE, the
\* answer line with backslash quoting removed and the blanks around it
\* stripped; when read fails because the input ends before the line is
\* complete, the script exits 1 with the files unchanged.
C10_StrippedAnswer ==
    /\ (keysDir /\ priv0.exists) =>
           /\ C10_Overwritten => (stdin.newline /\ OVERWRITE \in {<<"y">>, <<"Y">>})
           /\ (C10_Overwritten /\ C10_Plain(stdin.text)) => C10_IsYes(stdin.text)
           /\ (C10_Ended /\ OVERWRITE \notin {<<"y">>, <<"Y">>}) =>
                  (kpc = "exited" /\ ~C10_Overwritten)
           /\ (C10_Ended /\ stdin.newline /\ C10_Plain(stdin.text)
                   /\ ~C10_IsYes(stdin.text)) =>
                  (kpc = "exited" /\ kexit = 0 /\ ~C10_Overwritten)
           /\ (C10_Ended /\ ~stdin.newline) =>
                  (kpc = "exited" /\ kexit = 1 /\ ~C10_Overwritten)
    /\ C10_Completed

C10_Witness ==
    /\ kpc = "done"
    /\ priv0 = [exists |-> TRUE, key |-> "old", mode |-> 644]
    /\ stdin = [text |-> <<" ", "y">>, newline |-> TRUE]
    /\ priv = [exists |-> TRUE, key |-> "new2", mode |-> 600]
    /\ pub.key = "new2"

====
